---- MODULE Spec2Model ----
(***************************************************************************)
(* Fibonacci circuits of src/fibonacci/example1.rs (strategy A: three      *)
(* advice columns, one region per row) and src/fibonacci/example2.rs       *)
(* (strategy B: one advice column, one region of nrows rows), synthesised  *)
(* against the mock prover and then verified.                              *)
(*                                                                         *)
(* Field elements are the residues modulo Modulus.  Every call of the      *)
(* halo2 region/layouter API returns a Result; the set F drawn by an       *)
(* action is the set of calls of that handler that would return Err.       *)
(***************************************************************************)
EXTENDS Integers, Sequences, FiniteSets, TLC

\* ---------------------------------------------------------------- bounds
Modulus == 61
MaxSteps == 7
MaxRows == 10
MaxFaults == 1

\* ------------------------------------------------------ program constants
K == 4
LoopLo == 3
LoopHi == 10
NRowsB == 10
OutIndex == 2

NStepsA == LoopHi - LoopLo

SeedVals == {0, 1, Modulus - 1}
OutVals == {1, 34, 55, 56}
TamperVals == {0, 2}

\* MockProver::run(k, ..): a table of 2^k rows.
Rows == 0..(2^K - 1)
AdviceCells == {"a", "b", "c", "advice"} \X Rows

\* ------------------------------------------------------------- the field
Add(x, y) == (x + y) % Modulus

\* An AssignedCell: the cell it names and the value it carries.
ACell(col, r, v) == [cell |-> <<col, r>>, value |-> v]
NoCell == [cell |-> <<"none", 0>>, value |-> 0]
InstanceCell(k) == <<"instance", k>>

VARIABLES
    strategy,      \* "A" (example1) or "B" (example2)
    public_input,  \* the test's vector, passed to MockProver::run
    instance,      \* the prover's instance column
    n,             \* A: number of assign_row steps; B: nrows
    pc,            \* position in synthesize / the test
    i,             \* A: assign_row steps done; B: the loop's row
    advice,        \* value of each advice cell
    nassigned,     \* how many times each advice cell was assigned
    selector,      \* rows at which the selector is enabled
    copies,        \* copy constraints: a set of two-cell sets
    prev_b, prev_c,    \* example1 synthesize's carried cells
    a_cell, b_cell,    \* example2 assign's carried cells
    fault,         \* the calls that returned Err in the last handler
    err,           \* the call whose Err synthesize returned, or "none"
    result,        \* the checker's report
    run,           \* 1: first run, 2: re-run with a mutated public input
    prevAdvice,    \* the advice table before a mutation of table or input
    tampered,      \* row whose column-a cell was overwritten, 0 if none
    nfaults        \* calls that have returned Err so far

vars == <<strategy, public_input, instance, n, pc, i, advice, nassigned,
          selector, copies, prev_b, prev_c, a_cell, b_cell, fault, err,
          result, run, prevAdvice, tampered, nfaults>>

\* ------------------------------------------------- error propagation ('?')
\* ops is a handler's fallible calls in program order, prop the calls whose
\* Err is propagated with '?', F the calls that return Err.
Aborts(ops, prop, F, k) == ops[k] \in F /\ ops[k] \in prop
Reached(ops, prop, F, k) == \A j \in 1..(k - 1) : ~Aborts(ops, prop, F, j)
Done(ops, prop, F, op) ==
    \E k \in 1..Len(ops) : ops[k] = op /\ Reached(ops, prop, F, k) /\ op \notin F
Failed(ops, prop, F) ==
    \E k \in 1..Len(ops) : Reached(ops, prop, F, k) /\ Aborts(ops, prop, F, k)
ErrOf(ops, prop, F) ==
    IF Failed(ops, prop, F)
    THEN ops[CHOOSE k \in 1..Len(ops) : Reached(ops, prop, F, k) /\ Aborts(ops, prop, F, k)]
    ELSE "none"
OpSet(ops) == {ops[k] : k \in 1..Len(ops)}
\* The sets of calls that may return Err in one handler.
Faults(ops, done) == {F \in SUBSET OpSet(ops) : Cardinality(F) + done <= MaxFaults}

Put(f, cell, v, cond) == IF cond THEN [f EXCEPT ![cell] = v] ELSE f
Bump(f, cell, cond) == IF cond THEN [f EXCEPT ![cell] = @ + 1] ELSE f
Pair(c1, c2, cond) == IF cond THEN {{c1, c2}} ELSE {}

\* SimpleFloorPlanner: every region of example1 uses the same columns, so the
\* k-th region starts at row k.
RegionStart(k) == k

\* A cell no call has assigned holds no field element.
Unassigned == Modulus
EmptyTable == [c \in AdviceCells |-> Unassigned]
NoCount == [c \in AdviceCells |-> 0]
NoResult == [gate |-> {}, copy |-> {}, pim |-> {}, ok |-> FALSE]

Init ==
    /\ strategy \in {"A", "B"}
    /\ public_input \in [0..2 -> SeedVals \cup OutVals]
    /\ public_input[0] \in SeedVals
    /\ public_input[1] \in SeedVals
    /\ public_input[2] \in OutVals
    /\ instance = public_input
    /\ n \in 0..(IF strategy = "A" THEN MaxSteps ELSE MaxRows)
    /\ pc = IF strategy = "A" THEN "first_row" ELSE "assign_seeds"
    /\ i = 0
    /\ advice = EmptyTable
    /\ nassigned = NoCount
    /\ selector = {}
    /\ copies = {}
    /\ prev_b = NoCell /\ prev_c = NoCell
    /\ a_cell = NoCell /\ b_cell = NoCell
    /\ fault = {}
    /\ err = "none"
    /\ result = NoResult
    /\ run = 1
    /\ prevAdvice = EmptyTable
    /\ tampered = 0
    /\ nfaults = 0

\* ------------------------------------------------------------ strategy A
FirstRowOps == <<"selector", "a", "b", "c">>
FirstRowPropagated == {"selector", "a", "b", "c"}

AssignFirstRow ==
    /\ strategy = "A" /\ pc = "first_row"
    /\ \E F \in Faults(FirstRowOps, nfaults) :
        LET ok(op) == Done(FirstRowOps, FirstRowPropagated, F, op)
            r == RegionStart(0)
            a_val == instance[0]
            b_val == instance[1]
            c_val == Add(a_val, b_val)
            failed == Failed(FirstRowOps, FirstRowPropagated, F)
        IN  /\ fault' = F
            /\ nfaults' = nfaults + Cardinality(F)
            /\ selector' = IF ok("selector") THEN selector \cup {r} ELSE selector
            /\ advice' = Put(Put(Put(advice, <<"a", r>>, a_val, ok("a")),
                                 <<"b", r>>, b_val, ok("b")),
                             <<"c", r>>, c_val, ok("c"))
            /\ nassigned' = Bump(Bump(Bump(nassigned, <<"a", r>>, ok("a")),
                                      <<"b", r>>, ok("b")),
                                 <<"c", r>>, ok("c"))
            /\ copies' = copies \cup Pair(InstanceCell(0), <<"a", r>>, ok("a"))
                                \cup Pair(InstanceCell(1), <<"b", r>>, ok("b"))
            /\ err' = ErrOf(FirstRowOps, FirstRowPropagated, F)
            /\ IF failed
               THEN pc' = "error" /\ UNCHANGED <<prev_b, prev_c>>
               ELSE /\ pc' = IF i < n THEN "next_row" ELSE "expose"
                    /\ prev_b' = ACell("b", r, b_val)
                    /\ prev_c' = ACell("c", r, c_val)
    /\ UNCHANGED <<strategy, public_input, instance, n, i, a_cell, b_cell,
                   result, run, prevAdvice, tampered>>

AssignRowOps == <<"selector", "copy_a", "copy_b", "c">>
AssignRowPropagatedAll == {"selector", "copy_a", "copy_b", "c"}
AssignRowPropagated == {"selector", "copy_a", "c"}

\* The cells synthesize carries into the next step (lines 166-167).
CarryKeepB(pb, pc_, cc) == <<pb, cc>>
Carry(pb, pc_, cc) == <<pc_, cc>>

\* The value assign_row gives the new column-c cell (line 122).
RowSum(pb, pc_) == Add(pb.value, pc_.value)

AssignRow ==
    /\ strategy = "A" /\ pc = "next_row" /\ i < n
    /\ \E F \in Faults(AssignRowOps, nfaults) :
        LET ok(op) == Done(AssignRowOps, AssignRowPropagated, F, op)
            r == RegionStart(i + 1)
            c_val == RowSum(prev_b, prev_c)
            c_cell == ACell("c", r, c_val)
            failed == Failed(AssignRowOps, AssignRowPropagated, F)
        IN  /\ fault' = F
            /\ nfaults' = nfaults + Cardinality(F)
            /\ selector' = IF ok("selector") THEN selector \cup {r} ELSE selector
            /\ advice' = Put(Put(Put(advice, <<"a", r>>, prev_b.value, ok("copy_a")),
                                 <<"b", r>>, prev_c.value, ok("copy_b")),
                             <<"c", r>>, c_val, ok("c"))
            /\ nassigned' = Bump(Bump(Bump(nassigned, <<"a", r>>, ok("copy_a")),
                                      <<"b", r>>, ok("copy_b")),
                                 <<"c", r>>, ok("c"))
            /\ copies' = copies \cup Pair(prev_b.cell, <<"a", r>>, ok("copy_a"))
                                \cup Pair(prev_c.cell, <<"b", r>>, ok("copy_b"))
            /\ err' = ErrOf(AssignRowOps, AssignRowPropagated, F)
            /\ IF failed
               THEN pc' = "error" /\ UNCHANGED <<prev_b, prev_c, i>>
               ELSE /\ i' = i + 1
                    /\ pc' = IF i + 1 < n THEN "next_row" ELSE "expose"
                    /\ prev_b' = Carry(prev_b, prev_c, c_cell)[1]
                    /\ prev_c' = Carry(prev_b, prev_c, c_cell)[2]
    /\ UNCHANGED <<strategy, public_input, instance, n, a_cell, b_cell,
                   result, run, prevAdvice, tampered>>

\* ------------------------------------------------------------ strategy B
SeedOps == <<"selector0", "selector1", "a", "b">>
SeedPropagated == {"selector0", "selector1", "a", "b"}

AssignSeeds ==
    /\ strategy = "B" /\ pc = "assign_seeds"
    /\ \E F \in Faults(SeedOps, nfaults) :
        LET ok(op) == Done(SeedOps, SeedPropagated, F, op)
            failed == Failed(SeedOps, SeedPropagated, F)
        IN  /\ fault' = F
            /\ nfaults' = nfaults + Cardinality(F)
            /\ selector' = selector \cup (IF ok("selector0") THEN {0} ELSE {})
                                    \cup (IF ok("selector1") THEN {1} ELSE {})
            /\ advice' = Put(Put(advice, <<"advice", 0>>, instance[0], ok("a")),
                             <<"advice", 1>>, instance[1], ok("b"))
            /\ nassigned' = Bump(Bump(nassigned, <<"advice", 0>>, ok("a")),
                                 <<"advice", 1>>, ok("b"))
            /\ copies' = copies \cup Pair(InstanceCell(0), <<"advice", 0>>, ok("a"))
                                \cup Pair(InstanceCell(1), <<"advice", 1>>, ok("b"))
            /\ err' = ErrOf(SeedOps, SeedPropagated, F)
            /\ IF failed
               THEN pc' = "error" /\ UNCHANGED <<a_cell, b_cell, i>>
               ELSE /\ pc' = "assign_loop"
                    /\ i' = 2
                    /\ a_cell' = ACell("advice", 0, instance[0])
                    /\ b_cell' = ACell("advice", 1, instance[1])
    /\ UNCHANGED <<strategy, public_input, instance, n, prev_b, prev_c,
                   result, run, prevAdvice, tampered>>

LoopOps == <<"selector", "c">>
LoopPropagated == {"selector", "c"}

\* The guard of the selector inside the loop (line 90).
EnableAtUpToLast(row, nrows) == row < nrows - 1
EnableAt(row, nrows) == row < nrows - 2

\* The window carried to the next iteration (lines 100-101).
SlideStuck(a, b, c) == <<a, c>>
Slide(a, b, c) == <<b, c>>

AssignLoop ==
    /\ strategy = "B" /\ pc = "assign_loop" /\ i < n
    /\ \E F \in Faults(LoopOps, nfaults) :
        LET enable == EnableAt(i, n)
            ok(op) == Done(LoopOps, LoopPropagated, F \cap (IF enable THEN {"selector", "c"} ELSE {"c"}), op)
            Fe == F \cap (IF enable THEN {"selector", "c"} ELSE {"c"})
            failed == Failed(LoopOps, LoopPropagated, Fe)
            c_val == Add(a_cell.value, b_cell.value)
            c_cell == ACell("advice", i, c_val)
        IN  /\ fault' = Fe
            /\ nfaults' = nfaults + Cardinality(Fe)
            /\ selector' = IF enable /\ ok("selector") THEN selector \cup {i} ELSE selector
            /\ advice' = Put(advice, <<"advice", i>>, c_val, ok("c"))
            /\ nassigned' = Bump(nassigned, <<"advice", i>>, ok("c"))
            /\ err' = ErrOf(LoopOps, LoopPropagated, Fe)
            /\ IF failed
               THEN pc' = "error" /\ UNCHANGED <<a_cell, b_cell, i>>
               ELSE /\ pc' = "assign_loop"
                    /\ i' = i + 1
                    /\ a_cell' = Slide(a_cell, b_cell, c_cell)[1]
                    /\ b_cell' = Slide(a_cell, b_cell, c_cell)[2]
    /\ UNCHANGED <<strategy, public_input, instance, n, copies, prev_b, prev_c,
                   result, run, prevAdvice, tampered>>

\* The loop is over: assign returns b_cell (line 104).
AssignReturn ==
    /\ strategy = "B" /\ pc = "assign_loop" /\ ~(i < n)
    /\ pc' = "expose"
    /\ fault' = {}
    /\ UNCHANGED <<strategy, public_input, instance, n, i, advice, nassigned,
                   selector, copies, prev_b, prev_c, a_cell, b_cell, err,
                   result, run, prevAdvice, tampered, nfaults>>

\* ------------------------------------------------------- public exposure
\* The cell synthesize exposes: prev_c in example1, assign's result in example2.
OutCell == IF strategy = "A" THEN prev_c ELSE b_cell

ExposeOps == <<"constrain_instance">>
ExposePropagated == {"constrain_instance"}

\* The instance row the output cell is bound to.
ExposeRowSeed(cell, row) == InstanceCell(row - 1)
ExposeRow(cell, row) == InstanceCell(row)

ExposePublic ==
    /\ pc = "expose"
    /\ \E F \in Faults(ExposeOps, nfaults) :
        LET ok(op) == Done(ExposeOps, ExposePropagated, F, op)
            failed == Failed(ExposeOps, ExposePropagated, F)
        IN  /\ fault' = F
            /\ nfaults' = nfaults + Cardinality(F)
            /\ copies' = copies \cup
                  Pair(OutCell.cell, ExposeRow(OutCell, OutIndex), ok("constrain_instance"))
            /\ err' = ErrOf(ExposeOps, ExposePropagated, F)
            /\ pc' = IF failed THEN "error" ELSE "verify"
    /\ UNCHANGED <<strategy, public_input, instance, n, i, advice, nassigned,
                   selector, prev_b, prev_c, a_cell, b_cell,
                   result, run, prevAdvice, tampered>>

\* ----------------------------------------------------------- the gates
\* The cells the "add" gate queries at row r: a, b, c at Rotation::cur() in
\* example1; advice at Rotation::cur(), Rotation::next() and Rotation(2) in
\* example2.
GateCells(s, r) ==
    IF s = "A" THEN <<(<<"a", r>>), (<<"b", r>>), (<<"c", r>>)>>
    ELSE <<(<<"advice", r>>), (<<"advice", r + 1>>), (<<"advice", r + 2>>)>>

\* s * (a + b - c) is zero in the field at an enabled row.
GatePoly(a, b, c) == (a + b + (Modulus - c)) % Modulus

\* ------------------------------------------------- the constraint checker
CellAssigned(tbl, c) == IF c[1] = "instance" THEN TRUE ELSE tbl[c] # Unassigned
CellValue(tbl, inst, c) == IF c[1] = "instance" THEN inst[c[2]] ELSE tbl[c]

GateHolds(s, tbl, r) ==
    LET g == GateCells(s, r)
    IN  /\ \A k \in 1..3 : CellAssigned(tbl, g[k])
        /\ GatePoly(tbl[g[1]], tbl[g[2]], tbl[g[3]]) = 0

GateViolations(s, tbl, sel) == {r \in sel : ~GateHolds(s, tbl, r)}

CopyHolds(tbl, inst, p) ==
    \A c1 \in p : \A c2 \in p :
        /\ CellAssigned(tbl, c1)
        /\ CellValue(tbl, inst, c1) = CellValue(tbl, inst, c2)

CopyViolations(tbl, inst, cps) == {p \in cps : ~CopyHolds(tbl, inst, p)}

PublicInputMismatches(inst, pub) == {k \in 0..2 : inst[k] # pub[k]}

Check(s, tbl, sel, cps, inst, pub) ==
    LET g == GateViolations(s, tbl, sel)
        c == CopyViolations(tbl, inst, cps)
        m == PublicInputMismatches(inst, pub)
    IN  [gate |-> g, copy |-> c, pim |-> m, ok |-> g = {} /\ c = {} /\ m = {}]

\* prover.assert_satisfied() on the prover MockProver::run returned.
Verify ==
    /\ pc = "verify"
    /\ result' = Check(strategy, advice, selector, copies, instance, public_input)
    /\ pc' = "done"
    /\ fault' = {}
    /\ UNCHANGED <<strategy, public_input, instance, n, i, advice, nassigned,
                   selector, copies, prev_b, prev_c, a_cell, b_cell, err,
                   run, prevAdvice, tampered, nfaults>>

\* ------------------------------------------------------------- scenarios
\* The column-a cell of one "next row" is given a value other than the
\* previous row's column-b value; everything else stays as assigned.
TamperColumnA ==
    /\ strategy = "A" /\ pc = "verify" /\ run = 1 /\ tampered = 0
    /\ \E r \in 1..n : \E v \in TamperVals :
        /\ nassigned[<<"a", r>>] > 0
        /\ nassigned[<<"b", r - 1>>] > 0
        /\ v # advice[<<"b", r - 1>>]
        /\ prevAdvice' = advice
        /\ advice' = [advice EXCEPT ![<<"a", r>>] = v]
        /\ tampered' = r
    /\ fault' = {}
    /\ UNCHANGED <<strategy, public_input, instance, n, pc, i, nassigned,
                   selector, copies, prev_b, prev_c, a_cell, b_cell, err,
                   result, run, nfaults>>

\* The test's second run: public_input[2] is changed and the circuit is
\* run again on the new vector.
MutateAndRerun ==
    /\ pc = "done" /\ run = 1 /\ tampered = 0 /\ result.ok
    /\ \E v \in OutVals \ {public_input[OutIndex]} :
        /\ public_input' = [public_input EXCEPT ![OutIndex] = v]
        /\ instance' = [public_input EXCEPT ![OutIndex] = v]
    /\ run' = 2
    /\ prevAdvice' = advice
    /\ pc' = IF strategy = "A" THEN "first_row" ELSE "assign_seeds"
    /\ i' = 0
    /\ advice' = EmptyTable
    /\ nassigned' = NoCount
    /\ selector' = {}
    /\ copies' = {}
    /\ prev_b' = NoCell /\ prev_c' = NoCell
    /\ a_cell' = NoCell /\ b_cell' = NoCell
    /\ fault' = {}
    /\ UNCHANGED <<strategy, n, err, result, tampered, nfaults>>

Next == AssignFirstRow \/ AssignRow \/ AssignSeeds \/ AssignLoop \/ AssignReturn
        \/ ExposePublic \/ Verify \/ TamperColumnA \/ MutateAndRerun

Spec == Init /\ [][Next]_vars

\* ============================================================ properties
PI(x, y, z) == [k \in 0..2 |-> IF k = 0 THEN x ELSE IF k = 1 THEN y ELSE z]
Assigned(c) == nassigned[c] > 0
\* no copy into column b was a discarded failure
AllCopiesMade == \A r \in 1..i : Assigned(<<"b", r>>)
AssignOver == strategy = "B" /\ pc \in {"expose", "verify", "done"}

\* C1: strategy A with seeds (0, 1), 7 assign_row steps and the public input
\* (0, 1, 55) ends with the output cell holding 55 and the checker reporting
\* full satisfaction.
C1_Claim ==
    (strategy = "A" /\ pc = "done" /\ tampered = 0 /\ n = NStepsA
        /\ public_input = PI(0, 1, 55) /\ AllCopiesMade)
    => (prev_c.value = 55 /\ result.ok)

\* C2: strategy B with seeds (0, 1), nrows = 10 and the public input
\* (0, 1, 55) ends with row 9 holding 55 and the checker reporting that all
\* constraints are satisfied.
C2_Claim ==
    (strategy = "B" /\ pc = "done" /\ n = NRowsB /\ public_input = PI(0, 1, 55))
    => (advice[<<"advice", NRowsB - 1>>] = 55 /\ b_cell.value = 55 /\ result.ok)

\* The second run left the same advice table as the satisfied first run.
SameTableRerun == run = 2 /\ pc = "done" /\ advice = prevAdvice

CopiedFrom(r) == IF r = 1 THEN <<"b", 0>> ELSE <<"c", r - 2>>
Base == Check(strategy, prevAdvice, selector, copies, instance, public_input)
TamperChecked == strategy = "A" /\ pc = "done" /\ tampered # 0

\* C4 (as claimed): with one next-row column-a cell differing from the prior
\* row's column b, in an otherwise satisfied table, the checker reports
\* exactly one copy-constraint violation, naming those two cells, and every
\* gate, other copy constraint and public-input binding as satisfied.
C4_Claim ==
    (TamperChecked /\ Base.ok) =>
        /\ result.copy = {{<<"b", tampered - 1>>, <<"a", tampered>>}}
        /\ result.gate = {}
        /\ result.pim = {}

\* C4 (amended): the checker reports one new copy-constraint violation,
\* between the altered column-a cell and the cell it was copied from, and a
\* gate violation at the altered row; every other constraint is reported as
\* for the unaltered table.
C4_Theorem ==
    TamperChecked =>
        /\ {CopiedFrom(tampered), <<"a", tampered>>} \notin Base.copy
        /\ result.copy = Base.copy \cup {{CopiedFrom(tampered), <<"a", tampered>>}}
        /\ result.gate = Base.gate \cup {tampered}
        /\ result.pim = Base.pim

C4_Witness == TamperChecked /\ Base.ok /\ tampered >= 2 /\ Cardinality(result.copy) = 1

\* C5: for nrows >= 4, once assign is over no row r >= nrows - 2 has the
\* selector enabled.
C5_Theorem ==
    (AssignOver /\ n >= 4) => \A r \in selector : ~(r >= n - 2)

C5_Witness == AssignOver /\ n >= 5 /\ (n - 3) \in selector /\ pc = "done"

\* C6: for every nrows, once assign is over every row with the selector
\* enabled has the advice cells at rows r, r+1 and r+2 assigned.
C6_Claim ==
    AssignOver =>
        \A r \in selector : \A k \in {r, r + 1, r + 2} : Assigned(<<"advice", k>>)

\* C8: in assign_row, an Err of the copy into column a ends the step with
\* that error and no column-c cell; an Err of the copy into column b alone is
\* dropped: column c is assigned and the step returns the new c cell.
C8_Theorem ==
    [][(strategy = "A" /\ pc = "next_row") =>
        LET r == RegionStart(i + 1)
        IN  /\ ("copy_a" \in fault' /\ "selector" \notin fault') =>
                /\ pc' = "error" /\ err' = "copy_a"
                /\ ~Assigned(<<"c", r>>)' /\ ~Assigned(<<"b", r>>)'
                /\ prev_c' = prev_c
            /\ fault' = {"copy_b"} =>
                /\ pc' # "error" /\ err' = "none" /\ i' = i + 1
                /\ ~Assigned(<<"b", r>>)'
                /\ \A p \in copies' : <<"b", r>> \notin p
                /\ nassigned'[<<"c", r>>] = 1
                /\ prev_c' = ACell("c", r, advice'[<<"c", r>>])
                /\ advice'[<<"c", r>>] = Add(prev_b.value, prev_c.value)]_vars

C8_Witness ==
    strategy = "A" /\ fault = {"copy_b"} /\ pc \in {"next_row", "expose"} /\ i >= 1
        /\ ~Assigned(<<"b", i>>) /\ Assigned(<<"c", i>>)

\* C9: after assign_first_row and any number of assign_row steps that
\* returned Ok, every row i has its selector enabled and C[i] = A[i] + B[i],
\* and every row i >= 1 has A[i] = B[i-1] and B[i] = C[i-1] with a copy
\* constraint recorded for each of the two pairs.
C9_Claim ==
    (strategy = "A" /\ tampered = 0 /\ pc \in {"next_row", "expose", "verify", "done"}) =>
        \A r \in 0..i :
            /\ Assigned(<<"a", r>>) /\ Assigned(<<"b", r>>) /\ Assigned(<<"c", r>>)
            /\ r \in selector
            /\ advice[<<"c", r>>] = Add(advice[<<"a", r>>], advice[<<"b", r>>])
            /\ r >= 1 =>
                /\ advice[<<"a", r>>] = advice[<<"b", r - 1>>]
                /\ advice[<<"b", r>>] = advice[<<"c", r - 1>>]
                /\ {<<"b", r - 1>>, <<"a", r>>} \in copies
                /\ {<<"c", r - 1>>, <<"b", r>>} \in copies

\* C10: for nrows >= 2, at the start of the iteration for row r the carried
\* pair is the cells of rows r-2 and r-1 with the table's values; once assign
\* is over every row r in 2..nrows-1 holds table[r-2] + table[r-1], every row
\* 0..nrows-1 was assigned exactly once, and the cell returned is row nrows-1.
C10_Theorem ==
    /\ (strategy = "B" /\ n >= 2 /\ pc = "assign_loop") =>
        /\ a_cell = ACell("advice", i - 2, advice[<<"advice", i - 2>>])
        /\ b_cell = ACell("advice", i - 1, advice[<<"advice", i - 1>>])
        /\ Assigned(<<"advice", i - 2>>) /\ Assigned(<<"advice", i - 1>>)
    /\ (AssignOver /\ n >= 2) =>
        /\ \A r \in 2..(n - 1) :
              advice[<<"advice", r>>] = Add(advice[<<"advice", r - 2>>], advice[<<"advice", r - 1>>])
        /\ \A r \in 0..(n - 1) : nassigned[<<"advice", r>>] = 1
        /\ OutCell = ACell("advice", n - 1, advice[<<"advice", n - 1>>])

C10_Witness ==
    AssignOver /\ pc = "done" /\ n >= 4 /\ advice[<<"advice", n - 1>>] > 1
====
